---------------------------- MODULE Spec2Model ----------------------------
(***************************************************************************)
(* github-server (src/index.js): an Express proxy that logs a browser in    *)
(* through GitHub OAuth, gates the login on an allow-list, hands the       *)
(* access token to the browser in the gh_token cookie and forwards a fixed *)
(* set of /api routes to the GitHub REST API with the token the request    *)
(* carries.                                                                *)
(*                                                                         *)
(* The model is of the server of lines 1-340.  Lines 342-607 hold a        *)
(* second, session-based server that redeclares every const of the first   *)
(* and cannot run in the same file; its gate, its spec/update and its      *)
(* error envelope are the same code, its logout destroys a server-side     *)
(* session and its /api/repos makes a single call.                         *)
(*                                                                         *)
(* Strings the code inspects character by character (the allow-list and    *)
(* the profile names) are sequences of one-character strings; opaque       *)
(* values (tokens, bodies, paths) are TLA+ strings.  "undefined" stands    *)
(* for JavaScript's undefined among opaque values.                         *)
(***************************************************************************)
EXTENDS Naturals, Sequences, FiniteSets

VARIABLES ALLOWED_USERS, allowedUsers, jar, revoked, login, req

vars == <<ALLOWED_USERS, allowedUsers, jar, revoked, login, req>>

(***************************************************************************)
(* Bounds of the model.                                                    *)
(***************************************************************************)
\* The upstream holds at most MaxFullPages full pages of repositories.
MaxFullPages == 2

\* The configured ALLOWED_USERS strings of the gate's specification have at most
\* MaxConfigLen characters.
MaxConfigLen == 4

\* const per_page = 100
per_page == 100

(***************************************************************************)
(* JavaScript string helpers.                                              *)
(***************************************************************************)
Undefined == <<"undefined">>

Truthy(s) == s # Undefined /\ s # <<>>

\* a || b on strings
Or(a, b) == IF Truthy(a) THEN a ELSE b

toLowerChar(c) ==
  CASE c = "A" -> "a"
    [] c = "L" -> "l"
    [] c = "B" -> "b"
    [] c = "O" -> "o"
    [] OTHER -> c

toLowerCase(s) == [i \in 1..Len(s) |-> toLowerChar(s[i])]

RECURSIVE splitFrom(_, _, _)
\* the pieces of s after position i, cur being the piece under construction
splitFrom(s, i, cur) ==
  IF i > Len(s) THEN <<cur>>
  ELSE IF s[i] = "," THEN <<cur>> \o splitFrom(s, i + 1, <<>>)
  ELSE splitFrom(s, i + 1, Append(cur, s[i]))

split(s) == splitFrom(s, 1, <<>>)

\* the white space String.prototype.trim strips, as far as the inputs hold any
WhiteSpace == {" ", "\t"}

RECURSIVE trimStart(_)
trimStart(s) == IF s # <<>> /\ Head(s) \in WhiteSpace THEN trimStart(Tail(s)) ELSE s

RECURSIVE trimEnd(_)
trimEnd(s) ==
  IF s # <<>> /\ s[Len(s)] \in WhiteSpace
  THEN trimEnd(SubSeq(s, 1, Len(s) - 1))
  ELSE s

trim(s) == trimEnd(trimStart(s))

\* the parse without its filter: ALLOWED_USERS.split(",").map((s) => s.trim())
parseAllowedUsersNoFilter(env) ==
  LET parts == split(env)
  IN  [i \in 1..Len(parts) |-> trim(parts[i])]

\* ALLOWED_USERS.split(",").map((s) => s.trim()).filter(Boolean)
parseAllowedUsers(env) ==
  LET parts == split(env)
      trimmed == [i \in 1..Len(parts) |-> trim(parts[i])]
  IN  SelectSeq(trimmed, LAMBDA s : s # <<>>)

(***************************************************************************)
(* Inputs.                                                                 *)
(***************************************************************************)
\* values of the ALLOWED_USERS environment variable
Configs ==
  { <<>>,
    <<"A", "L">>,
    <<"a", "l", ",", " ", "B", "o">>,
    <<" ", ",", "b", "o">> }

\* profiles the OAuth strategy may hand to the verify callback
Profiles ==
  { [username |-> <<"a", "l">>, login |-> <<"B", "O">>, displayName |-> <<"A", "L">>],
    [username |-> <<"b", "o">>, login |-> Undefined, displayName |-> <<"A", "L">>],
    [username |-> Undefined, login |-> <<"B", "O">>, displayName |-> <<"A", "L">>],
    [username |-> <<>>, login |-> Undefined, displayName |-> <<"A", "L">>],
    [username |-> Undefined, login |-> Undefined, displayName |-> <<"b", "o">>],
    [username |-> Undefined, login |-> Undefined, displayName |-> Undefined] }

\* access tokens the provider issues
Tokens == {"t1", "t2"}

NoCookie == "undefined"

Reqs == {"r1", "r2"}


(***************************************************************************)
(* Allow-list gate and OAuth login flow.                                   *)
(***************************************************************************)
\* const username = (profile.username || profile.login || profile.displayName || "").toLowerCase()
usernameOf(profile) ==
  toLowerCase(Or(profile.username, Or(profile.login, Or(profile.displayName, <<>>))))

\* the comparison without the case fold on the allow-list entry: u === username
sameUserExact(u, username) == u = username

\* (u) => u.toLowerCase() === username
sameUser(u, username) == toLowerCase(u) = username

\* allowedUsers.some((u) => u.toLowerCase() === username)
isAllowed(list, profile) ==
  \E i \in 1..Len(list) : sameUser(list[i], usernameOf(profile))

\* the gate's verdict as the verify callback reaches it
gateOf(list, profile) ==
  IF Len(list) > 0
  THEN IF isAllowed(list, profile) THEN "passed" ELSE "rejected"
  ELSE "disabled"

\* a verify callback whose rejection does not return: done(null, profile) in every case
verifyNoReturn(list, accessToken, profile) ==
  [ok |-> TRUE, token |-> accessToken, gate |-> gateOf(list, profile)]

\* The GitHubStrategy verify callback: done(null, false, ...) or done(null, profile),
\* profile.token being the access token.
verify(list, accessToken, profile) ==
  IF Len(list) > 0 /\ ~isAllowed(list, profile)
  THEN [ok |-> FALSE, token |-> "undefined", gate |-> gateOf(list, profile)]
  ELSE [ok |-> TRUE, token |-> accessToken, gate |-> gateOf(list, profile)]

AnyProfile == CHOOSE p \in Profiles : TRUE

\* What the callback request can bring: a failed code exchange or profile fetch,
\* a denial reported by the provider, or an access token with its profile.
ExchangeOutcomes ==
  { [kind |-> "error", token |-> "undefined", profile |-> AnyProfile],
    [kind |-> "denied", token |-> "undefined", profile |-> AnyProfile] }
  \cup { [kind |-> "granted", token |-> t, profile |-> p] : t \in Tokens, p \in Profiles }

\* passport.authenticate("github", cb): what cb receives.  The verify callback
\* runs only when the exchange brought a token and a profile.
authenticate(list, outcome) ==
  CASE outcome.kind = "error" ->
         [err |-> TRUE, user |-> [ok |-> FALSE, token |-> "undefined", gate |-> "none"]]
    [] outcome.kind = "denied" ->
         [err |-> FALSE, user |-> [ok |-> FALSE, token |-> "undefined", gate |-> "none"]]
    [] OTHER ->
         [err |-> FALSE, user |-> verify(list, outcome.token, outcome.profile)]

\* (err, user) => { if (err) return next(err);
\*                  if (!user) return res.redirect("/unauthorized.html");
\*                  res.cookie("gh_token", user.token, ...); return res.redirect("/"); }
callback(err, user) ==
  IF err THEN [result |-> "error", setCookie |-> NoCookie]
  ELSE IF ~user.ok THEN [result |-> "unauthorized", setCookie |-> NoCookie]
  ELSE [result |-> "authenticated", setCookie |-> user.token]

NoLogin ==
  [pc |-> "anonymous", kind |-> "none", profile |-> AnyProfile,
   gate |-> "none", setCookie |-> NoCookie]

\* GET /auth/github: redirect to the provider
AuthGithub ==
  /\ login.pc # "pending_callback"
  /\ login' = [NoLogin EXCEPT !.pc = "pending_callback"]
  /\ UNCHANGED <<ALLOWED_USERS, allowedUsers, jar, revoked, req>>

\* GET /auth/github/callback
AuthGithubCallback ==
  /\ login.pc = "pending_callback"
  /\ \E outcome \in ExchangeOutcomes :
       LET a == authenticate(allowedUsers, outcome)
           res == callback(a.err, a.user)
       IN  /\ login' = [pc |-> res.result, kind |-> outcome.kind,
                        profile |-> outcome.profile, gate |-> a.user.gate,
                        setCookie |-> res.setCookie]
           /\ jar' = IF res.setCookie # NoCookie THEN res.setCookie ELSE jar
           /\ revoked' = revoked \ {res.setCookie}
  /\ UNCHANGED <<ALLOWED_USERS, allowedUsers, req>>

\* POST /logout: res.clearCookie("gh_token"); the browser drops the cookie.
\* revoked remembers the token the cleared cookie held.
Logout ==
  /\ jar' = NoCookie
  /\ revoked' = revoked \cup ({jar} \ {NoCookie})
  /\ login' = IF login.pc = "pending_callback" THEN login ELSE NoLogin
  /\ UNCHANGED <<ALLOWED_USERS, allowedUsers, req>>

(***************************************************************************)
(* Requests to the protected routes.  A handler runs from one await to the *)
(* next in one step; the upstream's answer arrives in a later step, so the *)
(* handlers of different requests interleave at their awaits.              *)
(***************************************************************************)
\* request bodies of the write routes: content, sha and push as the client sent them
Bodies ==
  { [content |-> "undefined", sha |-> "undefined", push |-> FALSE],
    [content |-> "", sha |-> "undefined", push |-> FALSE],
    [content |-> "hello", sha |-> "undefined", push |-> TRUE],
    [content |-> "hello", sha |-> "S0", push |-> FALSE] }

NoBody == [content |-> "undefined", sha |-> "undefined", push |-> FALSE]

\* the routes whose handler is one upstream GET relayed as it is
SimpleRoutes == {"me", "branches", "contents", "contentsPath", "commits", "trees"}

WriteRoutes == {"specUpdate", "putContents"}

\* the upstream path of a route, for the fixed owner o, repository r, path p and sha s
pathOf(route) ==
  CASE route = "me" -> "/user"
    [] route = "repos" -> "/user/repos"
    [] route = "branches" -> "/repos/o/r/branches"
    [] route = "contents" -> "/repos/o/r/contents"
    [] route = "contentsPath" -> "/repos/o/r/contents/p"
    [] route = "commits" -> "/repos/o/r/commits"
    [] route = "trees" -> "/repos/o/r/git/trees/s"
    [] route = "specUpdate" -> "/repos/o/r/contents/spec.yaml"
    [] OTHER -> "/repos/o/r/contents/p"

\* Buffer.from(content, "utf8").toString("base64") on the contents in use
base64(content) ==
  CASE content = "hello" -> "aGVsbG8="
    [] OTHER -> ""

Idle ==
  [pc |-> "idle", route |-> "none", cookie |-> NoCookie, user |-> "undefined",
   body |-> NoBody, page |-> 0, allRepos |-> <<>>, calls |-> <<>>, ups |-> <<>>,
   status |-> 0, error |-> "undefined", data |-> "undefined", items |-> <<>>,
   allowed |-> <<>>, push |-> FALSE, old |-> FALSE]

\* const token = req.cookies?.gh_token; if (!token) return res.status(401)...;
\* req.user = { token }; return next();
ensureAuthenticated(cookie) ==
  IF cookie = NoCookie \/ cookie = ""
  THEN [ok |-> FALSE, token |-> "undefined"]
  ELSE [ok |-> TRUE, token |-> cookie]

Unauthorized == "Unauthorized. Please log in via /auth/github"

\* a request as it arrives, before the middleware; old notes that its cookie is
\* one an earlier logout cleared
arrived(route, cookie, body) ==
  [Idle EXCEPT !.route = route, !.cookie = cookie, !.body = body,
               !.old = (cookie \in revoked)]

\* res.status(status).json({ error })
sendError(r, status, error) ==
  [r EXCEPT !.pc = "done", !.status = status, !.error = error]

\* the call with every request's token replaced by one module-level token
githubRequestSharedToken(token, method, path, page, payload) ==
  [token |-> "t1", method |-> method, path |-> path, page |-> page,
   content |-> payload.content, sha |-> payload.sha]

\* githubRequest(token, method, path, data, params): the call axios sends, with
\* Authorization: token <token>; page is params.page (0: none), payload the data
githubRequest(token, method, path, page, payload) ==
  [token |-> token, method |-> method, path |-> path, page |-> page,
   content |-> payload.content, sha |-> payload.sha]

NoPayload == [content |-> "undefined", sha |-> "undefined"]

\* the handler suspends on await githubRequest(...)
await(r, call) == [r EXCEPT !.pc = "await", !.calls = Append(@, call)]

(***************************************************************************)
(* The upstream API: what a call can be answered with.                     *)
(***************************************************************************)
Ok(data, sha, items) ==
  [kind |-> "ok", status |-> 200, data |-> data, sha |-> sha, items |-> items]

\* a non-2xx response: axios rejects with err.response = { status, data }
Http(status, data) ==
  [kind |-> "http", status |-> status, data |-> data, sha |-> "undefined", items |-> <<>>]

\* no response at all: axios rejects with err.response undefined
Net ==
  [kind |-> "net", status |-> 0, data |-> "undefined", sha |-> "undefined", items |-> <<>>]

Failures == { Http(422, "validation failed"), Http(404, ""), Net }

\* err.message
messageOf(up) ==
  CASE up.kind = "net" -> "Network Error"
    [] up.status = 422 -> "Request failed with status code 422"
    [] OTHER -> "Request failed with status code 404"

\* page p of the repository list when it holds n items: the items are numbered
\* in the upstream's order
pageItems(p, n) == [i \in 1..n |-> (p - 1) * per_page + i]

\* the sizes page p can have: short, or full while the upstream has full pages left
pageSizes(p) == {0, 37, per_page - 1} \cup (IF p <= MaxFullPages THEN {per_page} ELSE {})

answers(call) ==
  CASE call.path = "/user/repos" ->
         { Ok("undefined", "undefined", pageItems(call.page, n)) : n \in pageSizes(call.page) }
         \cup Failures
    [] call.path = "/repos/o/r/contents/spec.yaml" /\ call.method = "GET" ->
         { Ok("FILE", "S1", <<>>), Ok("LISTING", "undefined", <<>>),
           Http(404, "Not Found"), Http(404, ""), Net }
    [] OTHER -> { Ok("DATA", "undefined", <<>>) } \cup Failures

(***************************************************************************)
(* The route handlers.                                                     *)
(***************************************************************************)
\* an envelope that loses the upstream status
errorEnvelopeAlways500(up) ==
  [status |-> 500,
   error |-> IF up.kind = "http" /\ up.data # "" THEN up.data ELSE messageOf(up)]

\* res.status(err.response?.status || 500).json({ error: err.response?.data || err.message })
errorEnvelope(up) ==
  [status |-> IF up.kind = "http" /\ up.status # 0 THEN up.status ELSE 500,
   error |-> IF up.kind = "http" /\ up.data # "" THEN up.data ELSE messageOf(up)]

\* catch (err) { res.status(...).json({ error: ... }) }
catch(q, up) == sendError(q, errorEnvelope(up).status, errorEnvelope(up).error)

\* res.json(data)
sendJson(q, data) == [q EXCEPT !.pc = "done", !.status = 200, !.data = data]

\* req.user = { token }
withUser(q) == [q EXCEPT !.user = ensureAuthenticated(q.cookie).token]

\* app.<method>(path, ensureAuthenticated, handler): next is the handler's run on
\* the request with its user, reached only when the middleware calls next()
protected(q, next) ==
  IF ensureAuthenticated(q.cookie).ok THEN next
  ELSE sendError(q, 401, Unauthorized)

\* GET /api/me and the other single-call GET routes, up to the await
simpleStart(q) ==
  await(q, githubRequest(q.user, "GET", pathOf(q.route), 0, NoPayload))

\* ... and from the await on.  /api/me reshapes the user it got.
simpleResume(q, up) ==
  IF up.kind = "ok"
  THEN sendJson(q, IF q.route = "me" THEN "ME" ELSE up.data)
  ELSE catch(q, up)

\* the loop that stops only at an empty page
lastPageWhenEmpty(repos) == Len(repos) = 0

\* if (repos.length < per_page) more = false
lastPage(repos) == Len(repos) < per_page

\* the concatenation with its operands swapped
concatSwapped(allRepos, repos) == repos \o allRepos

\* allRepos = allRepos.concat(repos)
concat(allRepos, repos) == allRepos \o repos

\* GET /api/repos up to the first await: page = 1
reposStart(q) ==
  await([q EXCEPT !.page = 1, !.allRepos = <<>>],
        githubRequest(q.user, "GET", "/user/repos", 1, NoPayload))

\* one turn of the while loop, from the await to the next await or the response
reposResume(q, up) ==
  IF up.kind # "ok" THEN catch(q, up)
  ELSE LET all == concat(q.allRepos, up.items)
       IN  IF lastPage(up.items)
           THEN [q EXCEPT !.pc = "done", !.status = 200, !.allRepos = all, !.items = all]
           ELSE await([q EXCEPT !.allRepos = all, !.page = q.page + 1],
                      githubRequest(q.user, "GET", "/user/repos", q.page + 1, NoPayload))

\* POST spec/update up to the lookup: if (!content) return res.status(400)...
specUpdateStart(q) ==
  IF q.body.content = "undefined" \/ q.body.content = ""
  THEN sendError(q, 400, "content is required")
  ELSE await(q, githubRequest(q.user, "GET", pathOf("specUpdate"), 0, NoPayload))

\* a lookup whose sha is dropped
existingShaDropped(up) == "undefined"

\* existingSha = existing.sha, or null when the lookup threw
existingShaOf(up) == IF up.kind = "ok" THEN up.sha ELSE "undefined"

\* from the lookup's answer to the PUT: if (existingSha) payload.sha = existingSha
specUpdateLookedUp(q, up) ==
  await(q, githubRequest(q.user, "PUT", pathOf("specUpdate"), 0,
                         [content |-> base64(q.body.content), sha |-> existingShaOf(up)]))

\* PUT contents/:path up to the await: content = "" by default, sent as it is
putContentsStart(q) ==
  await(q, githubRequest(q.user, "PUT", pathOf("putContents"), 0,
                         [content |-> IF q.body.content = "undefined" THEN ""
                                      ELSE q.body.content,
                          sha |-> IF q.body.sha = "" THEN "undefined" ELSE q.body.sha]))

\* the answer to a PUT: res.json(data), data.push set when push was asked for
putResume(q, up) ==
  IF up.kind = "ok"
  THEN [sendJson(q, up.data) EXCEPT !.push = (q.route = "putContents" /\ q.body.push)]
  ELSE catch(q, up)

\* A request to a protected route arrives: the middleware, then the handler up to
\* its first await, in one step.
\* GET /api/me, branches, contents, contents/:path, commits, git/trees/:sha
ApiGet(r, cookie) ==
  /\ req[r].pc = "idle"
  /\ \E route \in SimpleRoutes :
       LET q == arrived(route, cookie, NoBody)
       IN  req' = [req EXCEPT ![r] = protected(q, simpleStart(withUser(q)))]
  /\ UNCHANGED <<ALLOWED_USERS, allowedUsers, jar, revoked, login>>

\* GET /api/repos
ApiRepos(r, cookie) ==
  /\ req[r].pc = "idle"
  /\ LET q == arrived("repos", cookie, NoBody)
     IN  req' = [req EXCEPT ![r] = protected(q, reposStart(withUser(q)))]
  /\ UNCHANGED <<ALLOWED_USERS, allowedUsers, jar, revoked, login>>

\* POST /api/repos/:owner/:repo/spec/update
SpecUpdate(r, cookie) ==
  /\ req[r].pc = "idle"
  /\ \E body \in Bodies :
       LET q == arrived("specUpdate", cookie, body)
       IN  req' = [req EXCEPT ![r] = protected(q, specUpdateStart(withUser(q)))]
  /\ UNCHANGED <<ALLOWED_USERS, allowedUsers, jar, revoked, login>>

\* PUT /api/repos/:owner/:repo/contents/:path
PutContents(r, cookie) ==
  /\ req[r].pc = "idle"
  /\ \E body \in Bodies :
       LET q == arrived("putContents", cookie, body)
       IN  req' = [req EXCEPT ![r] = protected(q, putContentsStart(withUser(q)))]
  /\ UNCHANGED <<ALLOWED_USERS, allowedUsers, jar, revoked, login>>

\* the call a suspended request waits for
lastCall(q) == q.calls[Len(q.calls)]

\* the request with the upstream's answer noted
answered(q, up) == [q EXCEPT !.ups = Append(@, up)]

\* The upstream answers the call request r waits for and the handler runs on, to
\* its next await or to its response.
AnsweredGet(r) ==
  /\ req[r].pc = "await"
  /\ req[r].route \in SimpleRoutes
  /\ \E up \in answers(lastCall(req[r])) :
       req' = [req EXCEPT ![r] = simpleResume(answered(req[r], up), up)]
  /\ UNCHANGED <<ALLOWED_USERS, allowedUsers, jar, revoked, login>>

AnsweredRepos(r) ==
  /\ req[r].pc = "await"
  /\ req[r].route = "repos"
  /\ \E up \in answers(lastCall(req[r])) :
       req' = [req EXCEPT ![r] = reposResume(answered(req[r], up), up)]
  /\ UNCHANGED <<ALLOWED_USERS, allowedUsers, jar, revoked, login>>

AnsweredLookup(r) ==
  /\ req[r].pc = "await"
  /\ req[r].route = "specUpdate"
  /\ lastCall(req[r]).method = "GET"
  /\ \E up \in answers(lastCall(req[r])) :
       req' = [req EXCEPT ![r] = specUpdateLookedUp(answered(req[r], up), up)]
  /\ UNCHANGED <<ALLOWED_USERS, allowedUsers, jar, revoked, login>>

AnsweredPut(r) ==
  /\ req[r].pc = "await"
  /\ req[r].route \in WriteRoutes
  /\ lastCall(req[r]).method = "PUT"
  /\ \E up \in answers(lastCall(req[r])) :
       req' = [req EXCEPT ![r] = putResume(answered(req[r], up), up)]
  /\ UNCHANGED <<ALLOWED_USERS, allowedUsers, jar, revoked, login>>

\* GET /admin/allowed-users: res.json({ allowedUsers }), no middleware
AdminAllowedUsers(r) ==
  /\ req[r].pc = "idle"
  /\ req' = [req EXCEPT ![r] =
       [Idle EXCEPT !.pc = "done", !.route = "admin", !.status = 200,
                    !.allowed = allowedUsers]]
  /\ UNCHANGED <<ALLOWED_USERS, allowedUsers, jar, revoked, login>>

\* the response has gone out; the request is over
Finish(r) ==
  /\ req[r].pc = "done"
  /\ req' = [req EXCEPT ![r] = Idle]
  /\ UNCHANGED <<ALLOWED_USERS, allowedUsers, jar, revoked, login>>

(***************************************************************************)
(* Specifications.                                                         *)
(***************************************************************************)
\* after startup: the allow-list parsed, nobody logged in, no request
Init ==
  /\ ALLOWED_USERS \in Configs
  /\ allowedUsers = parseAllowedUsers(ALLOWED_USERS)
  /\ jar = NoCookie
  /\ revoked = {}
  /\ login = NoLogin
  /\ req = [r \in Reqs |-> Idle]

\* what the browser's user can present as gh_token: nothing, an empty or made-up
\* value, the cookie the browser holds, or a cookie it held before a logout
Presentable == {NoCookie, "", "forged", jar} \cup revoked

\* one browser logging in and out, and one request at a time
Next ==
  \/ AuthGithub
  \/ AuthGithubCallback
  \/ Logout
  \/ \E cookie \in Presentable : ApiGet("r1", cookie)
  \/ \E cookie \in Presentable : ApiRepos("r1", cookie)
  \/ \E cookie \in Presentable : SpecUpdate("r1", cookie)
  \/ \E cookie \in Presentable : PutContents("r1", cookie)
  \/ AnsweredGet("r1")
  \/ AnsweredRepos("r1")
  \/ AnsweredLookup("r1")
  \/ AnsweredPut("r1")
  \/ AdminAllowedUsers("r1")
  \/ Finish("r1")

Spec == Init /\ [][Next]_vars

\* the requests of two callers, each holding a token of its own or none, interleaved
ConcNext ==
  \/ \E r \in Reqs, cookie \in Tokens \cup {NoCookie} : ApiGet(r, cookie)
  \/ \E r \in Reqs, cookie \in Tokens \cup {NoCookie} : ApiRepos(r, cookie)
  \/ \E r \in Reqs, cookie \in Tokens \cup {NoCookie} : SpecUpdate(r, cookie)
  \/ \E r \in Reqs, cookie \in Tokens \cup {NoCookie} : PutContents(r, cookie)
  \/ \E r \in Reqs : AnsweredGet(r)
  \/ \E r \in Reqs : AnsweredRepos(r)
  \/ \E r \in Reqs : AnsweredLookup(r)
  \/ \E r \in Reqs : AnsweredPut(r)
  \/ \E r \in Reqs : AdminAllowedUsers(r)
  \/ \E r \in Reqs : Finish(r)

ConcSpec == Init /\ [][ConcNext]_vars

\* one caller's requests, the upstream answering every call it is sent: the
\* promise of axios settles and the event loop runs the handler on
FairNext ==
  \/ \E cookie \in Tokens \cup {NoCookie} : ApiGet("r1", cookie)
  \/ \E cookie \in Tokens \cup {NoCookie} : ApiRepos("r1", cookie)
  \/ \E cookie \in Tokens \cup {NoCookie} : SpecUpdate("r1", cookie)
  \/ \E cookie \in Tokens \cup {NoCookie} : PutContents("r1", cookie)
  \/ AnsweredGet("r1")
  \/ AnsweredRepos("r1")
  \/ AnsweredLookup("r1")
  \/ AnsweredPut("r1")
  \/ AdminAllowedUsers("r1")
  \/ Finish("r1")

FairSpec == Init /\ [][FairNext]_vars /\ WF_vars(AnsweredRepos("r1"))

\* the characters of a configured allow-list: a letter, the separator, white space
ConfigAlphabet == {"a", ",", " ", "\t"}

RECURSIVE ConfigsUpTo(_)
\* every string of at most n characters of the alphabet
ConfigsUpTo(n) ==
  IF n = 0 THEN {<<>>}
  ELSE ConfigsUpTo(n - 1)
         \cup { Append(c, ch) : c \in ConfigsUpTo(n - 1), ch \in ConfigAlphabet }

\* after startup, whatever comma-separated string ALLOWED_USERS holds
GateInit ==
  /\ ALLOWED_USERS \in ConfigsUpTo(MaxConfigLen)
  /\ allowedUsers = parseAllowedUsers(ALLOWED_USERS)
  /\ jar = NoCookie
  /\ revoked = {}
  /\ login = NoLogin
  /\ req = [r \in Reqs |-> Idle]

\* the login flow alone
GateNext ==
  \/ AuthGithub
  \/ AuthGithubCallback
  \/ Logout

GateSpec == GateInit /\ [][GateNext]_vars

(***************************************************************************)
(* Properties.                                                             *)
(***************************************************************************)
ProtectedRoutes == SimpleRoutes \cup {"repos"} \cup WriteRoutes

CasePairs ==
  { <<"a", "A">>, <<"l", "L">>, <<"b", "B">>, <<"o", "O">> }

\* equal up to the case of the letters
CaseInsensitiveEq(a, b) ==
  /\ Len(a) = Len(b)
  /\ \A i \in 1..Len(a) :
       a[i] = b[i] \/ <<a[i], b[i]>> \in CasePairs \/ <<b[i], a[i]>> \in CasePairs

Present(s) == s # Undefined /\ s # <<>>

\* the name an identity is known by: its username, else its login, else its
\* display name, else the empty string
ComparisonKey(p) ==
  IF Present(p.username) THEN p.username
  ELSE IF Present(p.login) THEN p.login
  ELSE IF Present(p.displayName) THEN p.displayName
  ELSE <<>>

Admits(list, p) ==
  Len(list) = 0 \/ \E i \in 1..Len(list) : CaseInsensitiveEq(list[i], ComparisonKey(p))

\* C1: for every allow-list and every identity that reaches the verify callback,
\* the login succeeds (the callback gets the profile and the gh_token cookie is
\* set to the access token) if and only if the allow-list is empty or the
\* identity's username (its login or display name when it has no username)
\* equals a member of the list up to case.
C1_LoginIffAllowed ==
  login.kind = "granted" =>
    ((login.pc = "authenticated" /\ login.setCookie \in Tokens /\ jar = login.setCookie)
       <=> Admits(allowedUsers, login.profile))

\* ALLOWED_USERS=AL admits the identity whose username is al
C1_Witness ==
  /\ allowedUsers = << <<"A", "L">> >>
  /\ login.kind = "granted"
  /\ login.profile.username = <<"a", "l">>
  /\ login.pc = "authenticated"

\* C2 as claimed: on every protected route a request with no credential or an
\* invalid one (empty, or a token no login ever issued) gets the 401 Unauthorized
\* envelope and causes no upstream call.
C2_InvalidCredentialRejected ==
  \A r \in Reqs :
    (req[r].route \in ProtectedRoutes /\ req[r].cookie \in {NoCookie, "", "forged"})
      => (req[r].pc = "done" /\ req[r].status = 401 /\ req[r].error = Unauthorized
          /\ req[r].calls = <<>>)

\* C3: a credential is stored only by a callback whose exchange succeeded and
\* whose gate was evaluated and passed; a flow that ends in the unauthorized
\* redirect or in an error sets no cookie and leaves the browser's cookie alone.
C3_CredentialOnlyAfterGate ==
  /\ [](/\ login.setCookie # NoCookie =>
             (/\ login.kind = "granted"
              /\ login.gate \in {"passed", "disabled"}
              /\ Admits(allowedUsers, login.profile))
        /\ login.pc \in {"unauthorized", "error"} => login.setCookie = NoCookie)
  /\ [][/\ (jar' # jar /\ jar' # NoCookie) =>
              (/\ login.pc = "pending_callback"
               /\ login'.pc = "authenticated"
               /\ jar' = login'.setCookie)
        /\ login'.pc \in {"unauthorized", "error"} => jar' = jar]_vars

C3_Witness ==
  /\ login.pc = "authenticated"
  /\ login.gate = "passed"
  /\ jar = login.setCookie
  /\ jar \in Tokens

\* C4 as claimed: once POST /logout has cleared a cookie, a request to a protected
\* route that presents that old cookie is rejected as Unauthorized.
C4_OldCookieRejected ==
  \A r \in Reqs :
    (req[r].route \in ProtectedRoutes /\ req[r].old)
      => (req[r].pc = "done" /\ req[r].status = 401 /\ req[r].calls = <<>>)

RECURSIVE FlattenPages(_, _)
\* the items of the first n answers, page after page
FlattenPages(ups, n) ==
  IF n = 0 THEN <<>> ELSE FlattenPages(ups, n - 1) \o ups[n].items

C6_ReposLoopTerminates ==
  /\ [](\A r \in Reqs :
          (/\ req[r].route = "repos"
           /\ Len(req[r].ups) >= 1
           /\ req[r].ups[1].kind = "ok"
           /\ Len(req[r].ups[1].items) < per_page)
            => (req[r].pc = "done" /\ Len(req[r].calls) = 1))
  /\ \A r \in Reqs :
       (req[r].route = "repos" /\ req[r].pc = "await")
         ~> (req[r].route = "repos" /\ req[r].pc = "done")
  /\ [][\A r \in Reqs :
          (req[r].route = "repos" /\ req[r].pc = "done")
            => Len(req'[r].calls) <= Len(req[r].calls)]_vars

C6_Witness ==
  /\ req["r1"].route = "repos"
  /\ req["r1"].pc = "done"
  /\ req["r1"].status = 200
  /\ Len(req["r1"].calls) = 1
  /\ Len(req["r1"].ups[1].items) = 37

\* C7 as claimed: on every protected route, an upstream call that fails with a
\* non-2xx response makes the proxy respond with that status and that body, and
\* one that fails with no response makes it respond 500 with the local message.
C7_EveryFailureRelayed ==
  \A r \in Reqs :
    \A i \in 1..Len(req[r].ups) :
      LET q == req[r]
          up == q.ups[i]
      IN  (q.pc = "done" /\ up.kind # "ok") =>
            IF up.kind = "http"
            THEN q.status = up.status /\ q.error = up.data
            ELSE q.status = 500 /\ q.error = messageOf(up)

\* The two cases of C7 as claimed that the code does not meet, each on its own:
\* a non-2xx answer with an empty body is relayed with that (empty) body ...
C7_EmptyBodyRelayed ==
  \A r \in Reqs :
    (/\ req[r].pc = "done"
     /\ req[r].route # "specUpdate"
     /\ Len(req[r].ups) = 1
     /\ req[r].ups[1].kind = "http")
      => req[r].error = req[r].ups[1].data

\* ... and a lookup of spec/update answered 404 ends the request with 404.
C7_LookupFailureRelayed ==
  \A r \in Reqs :
    (/\ req[r].pc = "done"
     /\ req[r].route = "specUpdate"
     /\ Len(req[r].ups) = 2
     /\ req[r].ups[1] = Http(404, "Not Found"))
      => req[r].status = 404

\* C7 amended: the failure of the call a handler relays, which is every call but
\* the lookup GET of spec/update, answers the request: a non-2xx response with
\* its status and, as the error, its body when it has one and the local message
\* when the body is empty; no response at all with 500 and the local message.
\* A failed lookup of spec/update is not relayed.
C7_RelayedFailure ==
  \A r \in Reqs :
    LET q == req[r]
        n == Len(q.ups)
    IN  /\ \A i \in 1..n :
             (q.ups[i].kind # "ok" /\ i < n) =>
               (q.route = "specUpdate" /\ i = 1 /\ q.calls[i].method = "GET")
        /\ (n >= 1 /\ q.ups[n].kind # "ok"
              /\ ~(q.route = "specUpdate" /\ n = 1)) =>
             LET up == q.ups[n]
             IN  /\ q.pc = "done"
                 /\ up.kind = "http" =>
                      /\ q.status = up.status
                      /\ q.error = IF up.data # "" THEN up.data
                                   ELSE IF up.status = 422
                                        THEN "Request failed with status code 422"
                                        ELSE "Request failed with status code 404"
                 /\ up.kind = "net" =>
                      (q.status = 500 /\ q.error = "Network Error")

\* an upstream 422 with the body "validation failed" comes back as it is
C7_Witness ==
  \E r \in Reqs :
    /\ req[r].pc = "done"
    /\ req[r].route = "putContents"
    /\ Len(req[r].ups) = 1
    /\ req[r].ups[1] = Http(422, "validation failed")
    /\ req[r].status = 422
    /\ req[r].error = "validation failed"

\* C8: in spec/update the lookup GET comes first and the PUT follows whatever the
\* lookup's answer; a 200 with sha S puts sha = S in the PUT's payload, a 404 or
\* any other failure leaves the sha out.
C8_LookupThenPut ==
  \A r \in Reqs :
    req[r].route = "specUpdate" =>
      LET q == req[r]
      IN  /\ \A i \in 1..Len(q.calls) :
               /\ q.calls[i].method = (IF i = 1 THEN "GET" ELSE "PUT")
               /\ q.calls[i].path = "/repos/o/r/contents/spec.yaml"
          /\ Len(q.calls) <= 2
          /\ Len(q.ups) >= 1 =>
               /\ Len(q.calls) = 2
               /\ (q.ups[1].kind = "ok" /\ q.ups[1].sha # "undefined")
                    => q.calls[2].sha = q.ups[1].sha
               /\ q.ups[1].kind # "ok" => q.calls[2].sha = "undefined"

C8_Witness ==
  \E r \in Reqs :
    /\ req[r].route = "specUpdate"
    /\ Len(req[r].calls) = 2
    /\ req[r].ups[1].kind = "ok"
    /\ req[r].ups[1].sha = "S1"
    /\ req[r].calls[2].method = "PUT"
    /\ req[r].calls[2].sha = "S1"

\* C9 as claimed: on both write routes an authenticated request without content
\* gets a 400 error and causes no upstream call.
C9_MissingContentRejected ==
  \A r \in Reqs :
    (/\ req[r].route \in WriteRoutes
     /\ req[r].cookie \in Tokens
     /\ req[r].body.content = "undefined")
      => (req[r].pc = "done" /\ req[r].status = 400 /\ req[r].calls = <<>>)

\* C10: however the requests of different callers interleave, every upstream call
\* carries the token of the request that made it, and the allow-list is the one
\* parsed at startup, which /admin/allowed-users reports.
C10_OwnTokenAndFixedAllowList ==
  /\ \A r \in Reqs :
       /\ \A i \in 1..Len(req[r].calls) : req[r].calls[i].token = req[r].cookie
       /\ req[r].route = "admin" => req[r].allowed = parseAllowedUsers(ALLOWED_USERS)
  /\ allowedUsers = parseAllowedUsers(ALLOWED_USERS)

\* two callers with different tokens, both waiting for the upstream
C10_Witness ==
  /\ req["r1"].pc = "await"
  /\ req["r2"].pc = "await"
  /\ req["r1"].cookie = "t1"
  /\ req["r2"].cookie = "t2"
  /\ Len(req["r1"].calls) >= 2
  /\ Len(allowedUsers) > 0

\* C11: the parsed allow-list never holds an empty entry, whatever the configured
\* string (blank and white-space-only items included), so when the list is not
\* empty an identity with no username, login or display name, whose comparison
\* key is the empty string, is never admitted.
C11_EmptyKeyNeverAdmitted ==
  /\ \A i \in 1..Len(allowedUsers) : allowedUsers[i] # <<>>
  /\ (/\ login.kind = "granted"
      /\ Len(allowedUsers) > 0
      /\ ComparisonKey(login.profile) = <<>>)
       => (/\ login.pc = "unauthorized"
           /\ login.gate = "rejected"
           /\ login.setCookie = NoCookie)

\* ALLOWED_USERS=" ,,a": blank items, and the identity without a name turned away
C11_Witness ==
  /\ ALLOWED_USERS = <<" ", ",", ",", "a">>
  /\ allowedUsers = << <<"a">> >>
  /\ login.kind = "granted"
  /\ login.profile = [username |-> Undefined, login |-> Undefined, displayName |-> Undefined]
  /\ login.pc = "unauthorized"
=============================================================================
